---- MODULE Spec2Model ----
(***************************************************************************)
(* Model of jupyterhealth_client: the anonymization engine                 *)
(* (_anonymize.py), call by call and, for _random_id, statement by         *)
(* statement; the FHIR pagination walker                                   *)
(* (JupyterHealthClient._fhir_list_api_request in _client.py); and the     *)
(* client methods that take a patient id or an external id.                *)
(*                                                                         *)
(* Python strings are sequences of tokens: every digit and every           *)
(* punctuation character is a token of its own, a run of letters is one    *)
(* token ("Patient/12" is <<"Patient", "/", "1", "2">>).                   *)
(***************************************************************************)
EXTENDS Integers, Sequences, FiniteSets, TLC

VARIABLES
    jhe_id_cache,       \* _jhe_id_cache: id_key -> synthetic id
    reverse_id_cache,   \* _reverse_id_cache: synthetic id -> id_key
    uuid_n,             \* _random_uuid.n
    last,               \* the last call made: its arguments and its outcome
    firstId,            \* history: (kind, id) -> the id the first call returned
    uuids,              \* history: the strings _random_uuid returned, in order
    anonymize,          \* JupyterHealthClient._anonymize
    threads,            \* the threads calling _random_id: position and locals
    overlapped,         \* history: two threads were inside _random_id at once
    server,             \* the FHIR server's pages, by url
    limit,              \* the walker's limit argument
    r,                  \* the walker's current page
    pos,                \* index of the next entry of r["entry"] to process
    records,            \* the walker's count of yielded entries
    requests,           \* the walker's count of processed pages
    seen_ids,           \* the walker's set of ids already yielded
    new_records,        \* the walker's flag: this page yielded something
    wpc,                \* the walker generator's position
    yielded,            \* history: the entries yielded, in order
    fetched             \* history: the requests made, each with the yield count

anonVars == <<jhe_id_cache, reverse_id_cache, uuid_n, last, firstId, uuids,
              anonymize, threads, overlapped>>
walkVars == <<server, limit, r, pos, records, requests, seen_ids,
              new_records, wpc, yielded, fetched>>
vars == <<jhe_id_cache, reverse_id_cache, uuid_n, last, firstId, uuids,
          anonymize, threads, overlapped,
          server, limit, r, pos, records, requests, seen_ids,
          new_records, wpc, yielded, fetched>>

(***************************************************************************)
(* Bounds of the model.                                                    *)
(***************************************************************************)
\* random.randint(start, start + 10_000) draws from start..start+RangeWidth
RangeWidth == 1
\* _random_uuid is called only while the counter is below MaxUuid
MaxUuid == 3
\* random.random() is one of 0/RandSteps, ..., (RandSteps-1)/RandSteps
RandSteps == 2
\* a page holds at most MaxPageLen entries
MaxPageLen == 2
\* the limits tried are None and 0..MaxLimit
MaxLimit == 2
\* the values _scale_value is tried on lie in -MaxValue..MaxValue
MaxValue == 25

(***************************************************************************)
(* Python values: int, str, float and None.                                *)
(***************************************************************************)
PyInt(n) == [t |-> "int", i |-> n, d |-> 1, s |-> <<>>]
PyStr(str) == [t |-> "str", i |-> 0, d |-> 1, s |-> str]
PyFloat(num, den) == [t |-> "float", i |-> num, d |-> den, s |-> <<>>]
PyNone == [t |-> "None", i |-> 0, d |-> 1, s |-> <<>>]

\* truth value of a Python value (if x: ...)
Truthy(v) ==
    CASE v.t = "int" -> v.i # 0
      [] v.t = "float" -> v.i # 0
      [] v.t = "str" -> v.s # <<>>
      [] OTHER -> FALSE

DigitTokens == <<"0", "1", "2", "3", "4", "5", "6", "7", "8", "9">>

IsDigit(c) == \E k \in 1..10 : DigitTokens[k] = c

DigitValue(c) == (CHOOSE k \in 1..10 : DigitTokens[k] = c) - 1

RECURSIVE NatToStr(_)
NatToStr(n) ==
    IF n < 10 THEN <<DigitTokens[n + 1]>>
    ELSE NatToStr(n \div 10) \o <<DigitTokens[(n % 10) + 1]>>

\* str(n) of an int
IntToStr(n) == IF n < 0 THEN <<"-">> \o NatToStr(-n) ELSE NatToStr(n)

\* f"{v}" of a Python value
Format(v) ==
    CASE v.t = "int" -> IntToStr(v.i)
      [] v.t = "str" -> v.s
      [] OTHER -> <<"None">>

RECURSIVE DigitsToNat(_)
DigitsToNat(str) ==
    IF str = <<>> THEN 0
    ELSE 10 * DigitsToNat(SubSeq(str, 1, Len(str) - 1)) + DigitValue(str[Len(str)])

\* int(str): an optional sign and at least one digit, or ValueError
ParseIntDefault(str) ==
    IF str # <<>> /\ \A k \in 1..Len(str) : IsDigit(str[k])
    THEN [ok |-> TRUE, val |-> DigitsToNat(str)]
    ELSE [ok |-> TRUE, val |-> 0]
ParseInt(str) ==
    LET signed == str # <<>> /\ str[1] \in {"-", "+"}
        body == IF signed THEN Tail(str) ELSE str
    IN  IF body # <<>> /\ \A k \in 1..Len(body) : IsDigit(body[k])
        THEN [ok |-> TRUE,
              val |-> IF signed /\ str[1] = "-" THEN -DigitsToNat(body)
                      ELSE DigitsToNat(body)]
        ELSE [ok |-> FALSE, val |-> 0]

\* int(v) of a Python value that is an int or a str
ToInt(v) == IF v.t = "int" THEN [ok |-> TRUE, val |-> v.i] ELSE ParseInt(v.s)

\* str.partition(sep): the text before the first sep, the sep, the text after
Partition(str, sep) ==
    IF \E k \in 1..Len(str) : str[k] = sep
    THEN LET k == CHOOSE j \in 1..Len(str) :
                      str[j] = sep /\ \A h \in 1..(j - 1) : str[h] # sep
         IN  <<SubSeq(str, 1, k - 1), <<sep>>, SubSeq(str, k + 1, Len(str))>>
    ELSE <<str, <<>>, <<>>>>

(***************************************************************************)
(* The identifier mapping cache.                                           *)
(***************************************************************************)
UserStart == 10000
PatientStart == 40000
ObservationStart == 60000

EmptyMap == [k \in {} |-> 0]

\* the process-wide state an anonymization call reads and writes, with the
\* log of the _random_id calls it has made
Env(fwd, rev, n) ==
    [fwd |-> fwd, rev |-> rev, n |-> n, calls |-> <<>>, uuids |-> <<>>]

IdKey(id, kind) == kind \o <<"/">> \o Format(id)

\* the ids _random_id can draw with start
RangeOf(start) == start..(start + RangeWidth)

\* the values the retry loop of _random_id can leave in new_id
CandidatesNoRetry(rev, start) == start..(start + RangeWidth)
Candidates(rev, start) ==
    {n \in start..(start + RangeWidth) : n \notin DOMAIN rev}

\* id_key in _jhe_id_cache
IsCachedNever(fwd, id_key) == FALSE
IsCached(fwd, id_key) == id_key \in DOMAIN fwd

\* _jhe_id_cache[id_key] = new_id; _reverse_id_cache[new_id] = id_key
InsertForwardOnly(env, id_key, new_id) ==
    [env EXCEPT !.fwd = (id_key :> new_id) @@ @]
Insert(env, id_key, new_id) ==
    [env EXCEPT !.fwd = (id_key :> new_id) @@ @,
                !.rev = (new_id :> id_key) @@ @]

\* _random_id(id, kind, start): the outcomes [env, ret, spin]; spin is the
\* retry loop never finding a free id
RandomId(env, id, kind, start) ==
    LET id_key == IdKey(id, kind)
        logged(e, n, hit) ==
            [e EXCEPT !.calls =
                @ \o <<[kind |-> kind, id |-> id, ret |-> n, hit |-> hit]>>]
    IN  IF IsCached(env.fwd, id_key)
        THEN {[env |-> logged(env, env.fwd[id_key], TRUE),
               ret |-> env.fwd[id_key], spin |-> FALSE]}
        ELSE IF Candidates(env.rev, start) = {}
        THEN {[env |-> env, ret |-> 0, spin |-> TRUE]}
        ELSE {[env |-> logged(Insert(env, id_key, new_id), new_id, FALSE),
               ret |-> new_id, spin |-> FALSE] :
              new_id \in Candidates(env.rev, start)}

\* what deanonymize_id returns for an id the reverse cache does not hold
UnknownIdNone(id) == PyNone
UnknownId(id) == id

\* kind, _, real_id = id_key.partition("/"): the real_id
RealIdOfKind(id_key) == Partition(id_key, "/")[1]
RealIdOf(id_key) == Partition(id_key, "/")[3]

\* deanonymize_id(id): [status, ret]
DeanonymizeId(rev, id) ==
    IF ~(id.t = "int" /\ id.i \in DOMAIN rev)
    THEN [status |-> "returned", ret |-> UnknownId(id)]
    ELSE LET real_id == RealIdOf(rev[id.i])
             parsed == ParseInt(real_id)
         IN  IF parsed.ok
             THEN [status |-> "returned", ret |-> PyInt(parsed.val)]
             ELSE [status |-> "ValueError", ret |-> PyNone]

\* _random_uuid(): the counter after the call, and the string returned
UuidString(n) == PyStr(<<"u", "-", "u", "-", "i", "-", "d", "-">> \o IntToStr(n))

RandomUuidStale(env) ==
    [env |-> [env EXCEPT !.uuids = Append(@, UuidString(env.n + 1))],
     ret |-> UuidString(env.n + 1)]
RandomUuid(env) ==
    [env |-> [env EXCEPT !.n = @ + 1,
                         !.uuids = Append(@, UuidString(env.n + 1))],
     ret |-> UuidString(env.n + 1)]

(***************************************************************************)
(* Records, and writes through possibly shared objects.  A frame holds the *)
(* object a function works on (local), the caller's record (caller) and    *)
(* the names of the containers the two share: a write into a shared        *)
(* container is a write into the caller's record.                          *)
(***************************************************************************)
EmptyRecord == [k \in {} |-> PyNone]

SetItem(rec, k, v) == [x \in DOMAIN rec \cup {k} |-> IF x = k THEN v ELSE rec[x]]

Containers == {"root", "identifier", "identifier_item", "subject", "valueAttachment"}

\* new_user = {} / new_patient = {...}: a fresh dict
NewRecord(record, init) == [local |-> init, caller |-> record, shared |-> {}]

\* copy.deepcopy(observation)
ShallowCopy(record) ==
    [local |-> record, caller |-> record, shared |-> Containers \ {"root"}]
DeepCopy(record) == [local |-> record, caller |-> record, shared |-> {}]

\* frame.local[k] = v
SetField(f, k, v) ==
    [f EXCEPT !.local = SetItem(@, k, v),
              !.caller = IF "root" \in f.shared THEN SetItem(@, k, v) ELSE @]

\* frame.local[container][k] = v
SetNested(f, container, k, v) ==
    [f EXCEPT !.local[container] = SetItem(@, k, v),
              !.caller[container] =
                  IF container \in f.shared THEN SetItem(@, k, v) ELSE @]

\* frame.local["identifier"][j][k] = v
SetIdentifierItem(f, j, k, v) ==
    [f EXCEPT !.local.identifier[j] = SetItem(@, k, v),
              !.caller.identifier[j] =
                  IF "identifier_item" \in f.shared THEN SetItem(@, k, v) ELSE @]

(***************************************************************************)
(* The values faker can return, and str.lower().                           *)
(***************************************************************************)
FirstNames == {"Heather", "Brittany"}
LastNames == {"Williams"}
BirthDates == {<<"1955", "-", "06", "-", "01">>}

LowerToken(c) ==
    CASE c = "Heather" -> "heather"
      [] c = "Brittany" -> "brittany"
      [] c = "Williams" -> "williams"
      [] c = "Dorsey" -> "dorsey"
      [] c = "User" -> "user"
      [] c = "Name" -> "name"
      [] OTHER -> c

Lower(str) == [k \in 1..Len(str) |-> LowerToken(str[k])]

\* f"{first}.{last}@example.edu".lower()
ExampleEmail(first, lastn) ==
    PyStr(Lower(first.s \o <<".">> \o lastn.s \o <<"@", "example", ".", "edu">>))

(***************************************************************************)
(* anonymize_user                                                          *)
(***************************************************************************)
Outcome(env, status, ret, f) ==
    [env |-> env, status |-> status, ret |-> ret, caller |-> f.caller]

AnonymizeUser(env, user) ==
    UNION {
        LET f0 == NewRecord(user, EmptyRecord)
            f1 == SetField(f0, "firstName", PyStr(<<first>>))
            f2 == SetField(f1, "lastName", PyStr(<<lastn>>))
            f3 == SetField(f2, "email",
                           ExampleEmail(f2.local.firstName, f2.local.lastName))
            f4 == SetField(f3, "patient", PyNone)
        IN  { IF o.spin
              THEN Outcome(o.env, "spinning", EmptyRecord, f4)
              ELSE LET f5 == SetField(f4, "id", PyInt(o.ret))
                   IN  Outcome(o.env, "returned", f5.local, f5) :
              o \in RandomId(env, f4.caller.id, <<"User">>, UserStart) } :
        first \in FirstNames, lastn \in LastNames }

(***************************************************************************)
(* anonymize_patient                                                       *)
(***************************************************************************)
FixedPhone == PyStr(<<"(", "5", "1", "0", ")", " ", "5", "5", "5", "-", "1", "2", "3", "4">>)

AnonymizePatient(env, patient) ==
    UNION {
        LET f0 == NewRecord(patient, [organizationId |-> patient.organizationId])
            f1 == SetField(f0, "nameGiven", PyStr(<<first>>))
            f2 == SetField(f1, "nameFamily", PyStr(<<lastn>>))
            f3 == IF Truthy(f2.caller.telecomPhone)
                  THEN SetField(f2, "telecomPhone", FixedPhone)
                  ELSE f2
            f4 == IF Truthy(f3.caller.telecomEmail)
                  THEN SetField(f3, "telecomEmail",
                                ExampleEmail(f3.local.nameGiven, f3.local.nameFamily))
                  ELSE f3
            f5 == SetField(f4, "birthDate", PyStr(birth))
            u == RandomUuid(env)
            hasId == Truthy(f5.caller.identifier)
            f6 == IF hasId THEN SetField(f5, "identifier", u.ret) ELSE f5
            env6 == IF hasId THEN u.env ELSE env
        IN  UNION {
              IF o1.spin
              THEN {Outcome(o1.env, "spinning", EmptyRecord, f6)}
              ELSE LET f7 == SetField(f6, "id", PyInt(o1.ret))
                   IN  { IF o2.spin
                         THEN Outcome(o2.env, "spinning", EmptyRecord, f7)
                         ELSE LET f8 == SetField(f7, "jheUserId", PyInt(o2.ret))
                              IN  Outcome(o2.env, "returned", f8.local, f8) :
                         o2 \in RandomId(o1.env, f7.caller.jheUserId,
                                         <<"User">>, UserStart) } :
              o1 \in RandomId(env6, f6.caller.id, <<"Patient">>, PatientStart) } :
        first \in FirstNames, lastn \in LastNames, birth \in BirthDates }

(***************************************************************************)
(* _scale_value, in exact rational arithmetic.  A number is a Python int   *)
(* (i) or a float (i / d, d > 0).                                          *)
(***************************************************************************)
RECURSIVE Gcd(_, _)
Gcd(a, b) == IF b = 0 THEN a ELSE Gcd(b, a % b)

Abs(x) == IF x < 0 THEN -x ELSE x

\* the float num / den, in lowest terms
Float(num, den) ==
    LET g == Gcd(Abs(num), den) IN PyFloat(num \div g, den \div g)

\* round(num / den, -1) / 10: the nearest integer to num / (10 den), ties to even
RoundTenths(num, den) ==
    LET q == 10 * den
        fl == num \div q
        rem == num - fl * q
    IN  IF 2 * rem < q THEN fl
        ELSE IF 2 * rem > q THEN fl + 1
        ELSE IF fl % 2 = 0 THEN fl ELSE fl + 1

\* int(num / den): truncation towards zero
Trunc(num, den) == IF num >= 0 THEN num \div den ELSE -((-num) \div den)

\* _scale_value(value, noise_scale) when random.random() returns j / RandSteps;
\* noise_scale is the fraction <<sn, sd>>
ScaleValueUnrounded(value, noise_scale, j) ==
    LET sn == noise_scale[1]
        sd == noise_scale[2]
        num == value.i * (2 * RandSteps * sd + (2 * j - RandSteps) * sn)
        den == value.d * 2 * RandSteps * sd
    IN  IF value.t = "int" THEN PyInt(Trunc(num, den)) ELSE Float(num, den)
ScaleValue(value, noise_scale, j) ==
    LET round_value == 10 * RoundTenths(value.i, value.d)
        sn == noise_scale[1]
        sd == noise_scale[2]
        \* round_value + round_value * (j / RandSteps - 1/2) * (sn / sd)
        num == round_value * (2 * RandSteps * sd + (2 * j - RandSteps) * sn)
        den == 2 * RandSteps * sd
    IN  IF value.t = "int" THEN PyInt(Trunc(num, den)) ELSE Float(num, den)

(***************************************************************************)
(* The attachment: base64 text of a JSON document.  The text is modelled   *)
(* by the document it encodes and by the two choices of its writer: the    *)
(* JSON separators and whether the base64 text is wrapped in lines.        *)
(***************************************************************************)
\* base64.encodebytes(json.dumps(doc).encode()).decode()
EncodeAttachment(doc) == [json |-> doc, separators |-> "default", wrapped |-> TRUE]

\* json.loads(base64.decodebytes(data.encode()).decode())
DecodeAttachment(data) == data.json

IsDict(content) == "t" \notin DOMAIN content

\* "value" in content, for a dict (a key) or a str (a substring)
HasValue(content) ==
    IF IsDict(content) THEN "value" \in DOMAIN content
    ELSE \E k \in 1..Len(content.s) : content.s[k] = "value"

DefaultNoiseScale == <<1, 5>>

\* lines 144-148: the new value of a body entry whose value is original_value
NoisyValue(original_value, noise_scale, j) ==
    LET new_value == ScaleValue(original_value, noise_scale, j)
    IN  IF original_value.t = "int"
        THEN PyInt(Trunc(new_value.i, new_value.d))
        ELSE new_value

(***************************************************************************)
(* anonymize_observation                                                   *)
(***************************************************************************)
\* line 137: f"{kind}/{new_id}"
FormatReferenceNoKind(kind, new_id) == PyStr(IntToStr(new_id))
FormatReference(kind, new_id) == PyStr(kind \o <<"/">> \o IntToStr(new_id))

RECURSIVE AnonymizeIdentifiers(_, _, _)
\* for identifier in observation["identifier"]: identifier["value"] = _random_uuid()
AnonymizeIdentifiers(env, f, j) ==
    IF j > Len(f.local.identifier) THEN [env |-> env, f |-> f]
    ELSE LET u == RandomUuid(env)
         IN  AnonymizeIdentifiers(u.env, SetIdentifierItem(f, j, "value", u.ret), j + 1)

\* the bodies the noise loop can produce from body
ScaledBodiesValueOnly(body, noise_scale) ==
    LET valued == {fld \in DOMAIN body : HasValue(body[fld])}
    IN  {[fld \in DOMAIN body |->
             IF fld \in valued
             THEN [value |-> NoisyValue(body[fld].value, noise_scale, js[fld])]
             ELSE body[fld]] :
         js \in [valued -> 0..(RandSteps - 1)]}
ScaledBodies(body, noise_scale) ==
    LET valued == {fld \in DOMAIN body : HasValue(body[fld])}
    IN  {[fld \in DOMAIN body |->
             IF fld \in valued
             THEN SetItem(body[fld], "value",
                          NoisyValue(body[fld].value, noise_scale, js[fld]))
             ELSE body[fld]] :
         js \in [valued -> 0..(RandSteps - 1)]}

RECURSIVE AnonymizeHeader(_, _, _)
\* for field in ("uuid", "source_data_point_id"): ...
AnonymizeHeader(env, header, fields) ==
    IF fields = <<>> THEN [env |-> env, header |-> header]
    ELSE IF Head(fields) \in DOMAIN header
    THEN LET u == RandomUuid(env)
         IN  AnonymizeHeader(u.env, SetItem(header, Head(fields), u.ret), Tail(fields))
    ELSE AnonymizeHeader(env, header, Tail(fields))

\* lines 139-156: the attachment, once the ids are anonymized
AnonymizeAttachment(env, f, noise_scale) ==
    IF "valueAttachment" \notin DOMAIN f.local
    THEN {Outcome(env, "KeyError", EmptyRecord, f)}
    ELSE LET value_data == DecodeAttachment(f.local.valueAttachment.data)
         IN  IF "body" \notin DOMAIN value_data
             THEN {Outcome(env, "KeyError", EmptyRecord, f)}
             ELSE IF \E fld \in DOMAIN value_data.body :
                         /\ ~IsDict(value_data.body[fld])
                         /\ HasValue(value_data.body[fld])
             THEN {Outcome(env, "TypeError", EmptyRecord, f)}
             ELSE IF "header" \notin DOMAIN value_data
             THEN {Outcome(env, "KeyError", EmptyRecord, f)}
             ELSE LET h == AnonymizeHeader(env, value_data.header,
                                           <<"uuid", "source_data_point_id">>)
                  IN  { LET doc == [value_data EXCEPT !.body = body, !.header = h.header]
                            f1 == SetNested(f, "valueAttachment", "data",
                                            EncodeAttachment(doc))
                        IN  Outcome(h.env, "returned", f1.local, f1) :
                        body \in ScaledBodies(value_data.body, noise_scale) }

AnonymizeObservation(env, observation, noise_scale) ==
    LET f0 == DeepCopy(observation)
    IN  UNION {
          IF o1.spin
          THEN {Outcome(o1.env, "spinning", EmptyRecord, f0)}
          ELSE LET f1 == SetField(f0, "id", PyInt(o1.ret))
                   a == AnonymizeIdentifiers(o1.env, f1, 1)
                   reference == a.f.local.subject.reference
                   parts == Partition(reference.s, "/")
                   kind == parts[1]
                   id == ParseInt(parts[3])
               IN  IF ~id.ok
                   THEN {Outcome(a.env, "ValueError", EmptyRecord, a.f)}
                   ELSE UNION {
                          IF o2.spin
                          THEN {Outcome(o2.env, "spinning", EmptyRecord, a.f)}
                          ELSE LET f2 == SetNested(a.f, "subject", "reference",
                                            FormatReference(kind, o2.ret))
                               IN  AnonymizeAttachment(o2.env, f2, noise_scale) :
                          o2 \in RandomId(a.env, PyInt(id.val), kind, PatientStart) } :
          o1 \in RandomId(env, f0.local.id, <<"Observation">>, ObservationStart) }

(***************************************************************************)
(* The records the calls are made with.                                    *)
(***************************************************************************)
UserIds == {10001, 3}
PatientIds == {40001, 12}
ObservationIds == {<<"6", "3">>, <<"7">>}

Str(tok) == PyStr(<<tok>>)

UserRecord(id) ==
    [id |-> PyInt(id),
     email |-> PyStr(<<"user", "@", "real", ".", "example", ".", "org">>),
     firstName |-> Str("User"), lastName |-> Str("Name"), patient |-> PyInt(40001)]

Users == {UserRecord(id) : id \in UserIds}

\* present: the patient has a phone, an email and an external identifier
PatientRecord(id, user, present) ==
    [id |-> PyInt(id), jheUserId |-> PyInt(user),
     identifier |-> IF present THEN PyStr(<<"some", "-", "external", "-", "id">>)
                    ELSE PyNone,
     nameFamily |-> Str("Williams"), nameGiven |-> Str("Heather"),
     birthDate |-> PyStr(<<"1967", "-", "12", "-", "09">>),
     telecomPhone |-> IF present
                      THEN PyStr(<<"(", "8", "0", "1", ")", " ", "5", "5", "5",
                                   "-", "1", "2", "3", "3">>)
                      ELSE PyNone,
     telecomEmail |-> IF present
                      THEN PyStr(<<"heather", ".", "williams", "@", "example", ".", "edu">>)
                      ELSE PyNone,
     organizationId |-> PyInt(20026)]

Patients ==
    {PatientRecord(id, user, present) :
        id \in PatientIds, user \in UserIds, present \in BOOLEAN}

BpAttachment ==
    [header |-> [uuid |-> Str("ca29b9bd"), modality |-> Str("sensed"),
                 schema_id |-> [name |-> Str("blood-pressure"),
                                version |-> Str("3.1"), namespace |-> Str("omh")],
                 creation_date_time |-> Str("2024-04-10T08:36:00-01:00"),
                 external_datasheets |->
                     <<[datasheet_type |-> Str("manufacturer"),
                        datasheet_reference |-> Str("https://ihealthlabs.com/products")]>>,
                 source_data_point_id |-> Str("0b16ba05"),
                 source_creation_date_time |-> Str("2024-04-10T08:36:00-01:00")],
     body |-> [effective_time_frame |-> [date_time |-> Str("2024-04-10T08:36:00-01:00")],
               systolic_blood_pressure |-> [unit |-> Str("mmHg"), value |-> PyInt(120)],
               diastolic_blood_pressure |-> [unit |-> Str("mmHg"), value |-> PyInt(80)]]]

GlucoseAttachment ==
    [header |-> [uuid |-> Str("0bc92595"), modality |-> Str("self-reported")],
     body |-> [blood_glucose |-> [unit |-> Str("MGDL"), value |-> PyInt(65)],
               temporal_relationship_to_meal |-> Str("fasting")]]

TemperatureAttachment ==
    [header |-> [modality |-> Str("sensed"), source_data_point_id |-> Str("8f176f11")],
     body |-> [body_temperature |-> [unit |-> Str("F"), value |-> PyFloat(493, 5)]]]

NoHeaderAttachment == [body |-> BpAttachment.body]
NoBodyAttachment == [header |-> BpAttachment.header]

\* the attachment texts: as base64.encodebytes(json.dumps(doc)) writes them, and
\* as a server writing compact JSON and unwrapped base64 does
AttachmentTexts ==
    {EncodeAttachment(BpAttachment),
     EncodeAttachment(TemperatureAttachment),
     EncodeAttachment(NoHeaderAttachment),
     EncodeAttachment(NoBodyAttachment)}

\* the subject reference "Patient/<id>"
PatientReference(id) == PyStr(<<"Patient", "/">> \o IntToStr(id))

GoodReferences ==
    {<<"Patient", "/", "4", "0", "0", "0", "1">>, <<"Patient", "/", "1", "2">>,
     <<"User", "/", "3">>}
BadReferences == {<<"Patient">>, <<"Patient", "/", "abc">>}

ObservationBase(id, reference) ==
    [resourceType |-> Str("Observation"), id |-> PyStr(id),
     identifier |-> <<[value |-> PyStr(<<"abc", "-", "1", "2", "3">>),
                       system |-> Str("https://commonhealth.org")]>>,
     meta |-> [lastUpdated |-> Str("2024-10-09T17:04:36.617988+00:00")],
     status |-> Str("final"),
     subject |-> [reference |-> PyStr(reference)],
     code |-> [coding |-> <<[code |-> Str("omh:blood-pressure:4.0"),
                             system |-> Str("https://w3id.org/openmhealth")]>>]]

ObservationRecord(id, reference, text) ==
    LET base == ObservationBase(id, reference)
    IN  [k \in DOMAIN base \cup {"valueAttachment"} |->
            IF k = "valueAttachment"
            THEN [data |-> text, contentType |-> Str("application/json")]
            ELSE base[k]]

GlucoseText == [json |-> GlucoseAttachment, separators |-> "compact", wrapped |-> FALSE]

Observations ==
    {ObservationRecord(id, <<"Patient", "/", "1", "2">>, GlucoseText) :
        id \in ObservationIds}
    \cup {ObservationRecord(<<"7">>, ref, GlucoseText) :
             ref \in GoodReferences \cup BadReferences}
    \cup {ObservationRecord(<<"7">>, <<"Patient", "/", "1", "2">>, text) :
             text \in AttachmentTexts}
    \cup {ObservationBase(<<"7">>, <<"Patient", "/", "1", "2">>)}

\* the ids deanonymize_id is called with: every id of the three ranges, the
\* real ids, and an id given as a string
DeanonymizeArgs ==
    {PyInt(n) : n \in UserStart..(UserStart + RangeWidth)}
    \cup {PyInt(n) : n \in PatientStart..(PatientStart + RangeWidth)}
    \cup {PyInt(n) : n \in ObservationStart..(ObservationStart + RangeWidth)}
    \cup {PyInt(n) : n \in UserIds \cup PatientIds}
    \cup {PyInt(63), PyStr(<<"4", "0", "0", "0", "0">>)}

(***************************************************************************)
(* The anonymization engine as a state machine: one action per call.       *)
(***************************************************************************)
RECURSIVE RecordFirst(_, _)
\* history: the id each (kind, id) pair was given by the first call mapping it
RecordFirst(first, calls) ==
    IF calls = <<>> THEN first
    ELSE LET c == Head(calls)
             pair == [kind |-> c.kind, id |-> c.id]
         IN  RecordFirst(IF pair \in DOMAIN first THEN first
                         ELSE (pair :> c.ret) @@ first,
                         Tail(calls))

\* no thread is inside _random_id
NoThreads == [t \in {} |-> PyNone]

\* the caches as a call finds them
CurrentEnv == Env(jhe_id_cache, reverse_id_cache, uuid_n)

Spinning == last.status = "spinning"

\* no call is in progress and the result of the last one has been taken
Idle == last.op = "none"

\* no request is sent to the server
NoRequest == [path |-> <<>>, params |-> EmptyRecord]

NoCall ==
    [op |-> "none", arg |-> PyNone, caller |-> PyNone, request |-> NoRequest,
     status |-> "returned", ret |-> PyNone, calls |-> <<>>]

\* the call ends with outcome o, having sent request: the caches, the
\* counter and the histories after it
FinishCall(op, arg, request, o) ==
    /\ o.env.n <= MaxUuid
    /\ jhe_id_cache' = o.env.fwd
    /\ reverse_id_cache' = o.env.rev
    /\ uuid_n' = o.env.n
    /\ firstId' = RecordFirst(firstId, o.env.calls)
    /\ uuids' = uuids \o o.env.uuids
    /\ UNCHANGED <<threads, overlapped>>
    /\ last' = [op |-> op, arg |-> arg, caller |-> o.caller, request |-> request,
                status |-> o.status, ret |-> o.ret, calls |-> o.env.calls]
    /\ UNCHANGED walkVars

\* the same of a call that does not write self._anonymize
FinishRequest(op, arg, request, o) ==
    /\ FinishCall(op, arg, request, o)
    /\ UNCHANGED anonymize

Finish(op, arg, o) == FinishRequest(op, arg, NoRequest, o)

CallAnonymizeUser ==
    /\ Idle
    /\ \E user \in Users :
         \E o \in AnonymizeUser(Env(jhe_id_cache, reverse_id_cache, uuid_n), user) :
            Finish("anonymize_user", user, o)

CallAnonymizePatient ==
    /\ Idle
    /\ \E patient \in Patients :
         \E o \in AnonymizePatient(Env(jhe_id_cache, reverse_id_cache, uuid_n), patient) :
            Finish("anonymize_patient", patient, o)

CallAnonymizeObservation ==
    /\ Idle
    /\ \E observation \in Observations :
         \E o \in AnonymizeObservation(Env(jhe_id_cache, reverse_id_cache, uuid_n),
                                       observation, DefaultNoiseScale) :
            Finish("anonymize_observation", observation, o)

CallDeanonymizeId ==
    /\ Idle
    /\ \E id \in DeanonymizeArgs :
         LET d == DeanonymizeId(reverse_id_cache, id)
         IN  last' = [op |-> "deanonymize_id", arg |-> id, caller |-> id,
                      request |-> NoRequest,
                      status |-> d.status, ret |-> d.ret, calls |-> <<>>]
    /\ UNCHANGED <<jhe_id_cache, reverse_id_cache, uuid_n, firstId, uuids>>
    /\ UNCHANGED <<anonymize, threads, overlapped>>
    /\ UNCHANGED walkVars

\* the caller takes the result of the call (or its exception) and goes on; a
\* call spinning in the retry loop of _random_id never gets here
TakeResult ==
    /\ ~Idle
    /\ ~Spinning
    /\ last' = NoCall
    /\ UNCHANGED <<jhe_id_cache, reverse_id_cache, uuid_n, firstId, uuids>>
    /\ UNCHANGED <<anonymize, threads, overlapped>>
    /\ UNCHANGED walkVars


(***************************************************************************)
(* JupyterHealthClient(anonymize=True): the methods that take a patient    *)
(* id.  The server holds the patients of PatientIds and answers 404 for    *)
(* any other id.                                                           *)
(***************************************************************************)
\* the ids the methods are called with: the real ids and the ids of the
\* Patient range
PatientIdArgs ==
    {PyInt(n) : n \in PatientIds}
    \cup {PyInt(n) : n \in PatientStart..(PatientStart + RangeWidth)}

\* f"patients/{id}"
PatientRequest(id) ==
    [path |-> <<"patients", "/">> \o Format(id), params |-> EmptyRecord]

\* f"patients/{patient_id}/consents"
ConsentsRequest(patient_id) ==
    [path |-> <<"patients", "/">> \o Format(patient_id) \o <<"/", "consents">>,
     params |-> EmptyRecord]

\* "Observation" with params["patient"] = patient_id
ObservationRequest(patient_id) ==
    [path |-> <<"Observation">>, params |-> [patient |-> patient_id]]

\* what the server can answer a request for patient id with; nothing is a 404
ServedPatients(id) == {patient \in Patients : patient.id = id}

\* the observations the server can answer a search for patient id with
ServedObservations(id) ==
    {observation \in Observations :
        id.t = "int" /\ observation.subject.reference = PatientReference(id.i)}

\* the method ends without an anonymization call
Settle(op, arg, request, status, ret) ==
    /\ last' = [op |-> op, arg |-> arg, caller |-> arg, request |-> request,
                status |-> status, ret |-> ret, calls |-> <<>>]
    /\ UNCHANGED <<jhe_id_cache, reverse_id_cache, uuid_n, firstId, uuids>>
    /\ UNCHANGED <<anonymize, threads, overlapped>>
    /\ UNCHANGED walkVars

\* get_patient(id), lines 237-240
CallGetPatient ==
    /\ Idle
    /\ \E id \in PatientIdArgs :
         LET request == PatientRequest(id)
         IN  IF ServedPatients(id) = {}
             THEN Settle("get_patient", id, request, "RequestError", PyNone)
             ELSE \E patient \in ServedPatients(id) :
                    \E o \in AnonymizePatient(CurrentEnv, patient) :
                       FinishRequest("get_patient", id, request, o)

\* get_patient_consents(patient_id), lines 341-349
CallGetPatientConsents ==
    /\ Idle
    /\ \E patient_id \in PatientIdArgs :
         LET d == DeanonymizeId(reverse_id_cache, patient_id)
             request == ConsentsRequest(d.ret)
         IN  IF d.status # "returned"
             THEN Settle("get_patient_consents", patient_id, NoRequest, d.status, PyNone)
             ELSE IF ServedPatients(d.ret) = {}
             THEN Settle("get_patient_consents", patient_id, request,
                         "RequestError", PyNone)
             ELSE \E patient \in ServedPatients(d.ret) :
                    \E o \in AnonymizePatient(CurrentEnv, patient) :
                       FinishRequest(
                           "get_patient_consents", patient_id, request,
                           [o EXCEPT !.ret =
                               IF o.status = "returned"
                               THEN [patient |-> o.ret,
                                     consolidatedConsentedScopes |-> <<>>]
                               ELSE o.ret])

\* list(list_observations(patient_id)), lines 463-484, the server answering
\* with one page of at most one observation
CallListObservations ==
    /\ Idle
    /\ \E patient_id \in PatientIdArgs \cup {PyNone} :
         IF ~Truthy(patient_id)
         THEN Settle("list_observations", patient_id, NoRequest, "ValueError", PyNone)
         ELSE LET d == DeanonymizeId(reverse_id_cache, patient_id)
                  request == ObservationRequest(d.ret)
              IN  IF d.status # "returned"
                  THEN Settle("list_observations", patient_id, NoRequest,
                              d.status, PyNone)
                  ELSE IF ServedObservations(d.ret) = {}
                  THEN Settle("list_observations", patient_id, request,
                              "returned", <<>>)
                  ELSE \E observation \in ServedObservations(d.ret) :
                         \E o \in AnonymizeObservation(CurrentEnv, observation,
                                                       DefaultNoiseScale) :
                            FinishRequest(
                                "list_observations", patient_id, request,
                                [o EXCEPT !.ret = IF o.status = "returned"
                                                  THEN <<o.ret>> ELSE o.ret])

(***************************************************************************)
(* get_patient_by_external_id, lines 242-256, over list_patients, lines    *)
(* 258-266.  The server answers the request for the patients with a list   *)
(* of at most MaxPatients patients, or with an error.                      *)
(***************************************************************************)
\* the external ids asked for: the one the patients of the server can have,
\* and one none has
ExternalIds == {PyStr(<<"some", "-", "external", "-", "id">>), PyStr(<<"no", "-", "such", "-", "id">>)}

\* r["results"]: lists of patients with different ids
PatientLists ==
    {<<>>} \cup {<<p>> : p \in Patients}
    \cup {<<pq[1], pq[2]>> :
             pq \in {x \in Patients \X Patients : x[1].id # x[2].id}}

\* patch.object(self, "_anonymize", False): the attribute inside the with
\* block, and after the block is left
PatchEnter(value, new) == new
PatchExitKeepsPatch(patched, saved) == patched
PatchExit(patched, saved) == saved

\* list_patients, line 264-266: what the generator yields for the patient the
\* server listed, self._anonymize being flag when it is resumed
ListedPatient(env, flag, patient) ==
    IF flag
    THEN {[env |-> o.env, status |-> o.status, patient |-> o.ret] :
             o \in AnonymizePatient(env, patient)}
    ELSE {[env |-> env, status |-> "returned", patient |-> patient]}

RECURSIVE ScanPatients(_, _, _, _, _, _)
\* lines 251-256: the for loop from the k-th patient on, self._anonymize
\* being flag inside the with block: the outcomes [env, status, ret]
ScanPatients(env, flag, self_anonymize, results, external_id, k) ==
    IF k > Len(results)
    THEN {[env |-> env, status |-> "KeyError", ret |-> PyNone]}
    ELSE UNION {
           IF l.status # "returned"
           THEN {[env |-> l.env, status |-> l.status, ret |-> PyNone]}
           ELSE IF l.patient.identifier = external_id
           THEN IF self_anonymize
                THEN {[env |-> o.env, status |-> o.status, ret |-> o.ret] :
                         o \in AnonymizePatient(l.env, l.patient)}
                ELSE {[env |-> l.env, status |-> "returned", ret |-> l.patient]}
           ELSE ScanPatients(l.env, flag, self_anonymize, results, external_id, k + 1) :
           l \in ListedPatient(env, flag, results[k]) }

\* "patients"
PatientsRequest == [path |-> <<"patients">>, params |-> EmptyRecord]

\* get_patient_by_external_id(external_id); a call that spins in the retry
\* loop of _random_id stays inside the with block
CallGetPatientByExternalId ==
    /\ Idle
    /\ \E external_id \in ExternalIds :
         LET self_anonymize == anonymize
             patched == PatchEnter(anonymize, FALSE)
             arg(results, fails) ==
                 [external_id |-> external_id, anonymize |-> anonymize,
                  results |-> results, fails |-> fails]
         IN  \/ /\ last' = [op |-> "get_patient_by_external_id",
                            arg |-> arg(<<>>, TRUE), caller |-> arg(<<>>, TRUE),
                            request |-> PatientsRequest,
                            status |-> "RequestError", ret |-> PyNone,
                            calls |-> <<>>]
                /\ anonymize' = PatchExit(patched, self_anonymize)
                /\ UNCHANGED <<jhe_id_cache, reverse_id_cache, uuid_n, firstId, uuids>>
                /\ UNCHANGED <<threads, overlapped>>
                /\ UNCHANGED walkVars
             \/ \E results \in PatientLists :
                  \E o \in ScanPatients(CurrentEnv, patched, self_anonymize,
                                        results, external_id, 1) :
                     /\ FinishCall("get_patient_by_external_id",
                                   arg(results, FALSE), PatientsRequest,
                                   [env |-> o.env, status |-> o.status,
                                    ret |-> o.ret, caller |-> arg(results, FALSE)])
                     /\ anonymize' = IF o.status = "spinning" THEN patched
                                     ELSE PatchExit(patched, self_anonymize)

(***************************************************************************)
(* The pagination walker: JupyterHealthClient._fhir_list_api_request.      *)
(***************************************************************************)
EntryIds == {"1", "2", "3"}
InitialUrl == "Observation"
Urls == {InitialUrl, "Observation?page=2"}
NoUrl == ""

\* an entry as the record itself, and wrapped in a dict with one key
RawEntry(id) == [id |-> id, resourceType |-> "Observation"]
WrappedEntry(id) == [resource |-> RawEntry(id)]

\* lines 178-181: the value of a dict with one key, else the entry itself
Unwrap(entry) ==
    IF Cardinality(DOMAIN entry) = 1
    THEN entry[CHOOSE k \in DOMAIN entry : TRUE]
    ELSE entry

NextLink(url) == [relation |-> "next", url |-> url]
PreviousLink == [relation |-> "previous", url |-> InitialUrl]

EmptyPage == [entry |-> <<>>, link |-> <<>>]

IdSeqs == UNION {[1..n -> EntryIds] : n \in 0..MaxPageLen}

LinkLists == {<<>>, <<PreviousLink>>} \cup {<<NextLink(url)>> : url \in Urls}

Pages(wrapped) ==
    {[entry |-> [k \in 1..Len(ids) |->
                    IF wrapped THEN WrappedEntry(ids[k]) ELSE RawEntry(ids[k])],
      link |-> links] : ids \in IdSeqs, links \in LinkLists}

RECURSIVE NextUrlFrom(_, _)
NextUrlFrom(links, next_url) ==
    IF links = <<>> THEN next_url
    ELSE NextUrlFrom(Tail(links),
                     IF Head(links).relation = "next" THEN Head(links).url
                     ELSE next_url)

\* lines 195-198: the url of the last link whose relation is "next"
NextUrl(page) == NextUrlFrom(page.link, NoUrl)

\* the servers: what each url answers.  A url the walk cannot reach from the
\* initial request answers the empty page, whatever it would hold.
Servers ==
    UNION {{srv \in [Urls -> Pages(wrapped)] :
               \A url \in Urls \ {InitialUrl} :
                   NextUrl(srv[InitialUrl]) # url => srv[url] = EmptyPage} :
           wrapped \in BOOLEAN}

Limits == {PyNone} \cup {PyInt(k) : k \in 0..MaxLimit}

\* line 182: entry["id"] in seen_ids
IsSeenNever(seen, id) == FALSE
IsSeen(seen, id) == id \in seen

\* line 191: limit and records >= limit
LimitReached(lim, n) == Truthy(lim) /\ n >= lim.i

\* line 200: next_url and new_records
ShouldFollowAnyNext(next_url, new) == next_url # NoUrl
ShouldFollowInverted(next_url, new) == next_url # NoUrl /\ ~new
ShouldFollow(next_url, new) == next_url # NoUrl /\ new

\* a request: the page answered, logged with the number of entries yielded so far
Fetch(url) ==
    /\ r' = server[url]
    /\ fetched' = Append(fetched, [url |-> url, at |-> Len(yielded), ok |-> TRUE])

\* a request that fails: _api_request raises (line 148), nothing catches it in
\* the generator, which ends with the exception
FailedFetchRetried(url) ==
    /\ r' = r
    /\ fetched' = fetched \o <<[url |-> url, at |-> Len(yielded), ok |-> FALSE],
                                [url |-> url, at |-> Len(yielded), ok |-> FALSE]>>
    /\ wpc' = "raised"
FailedFetch(url) ==
    /\ r' = r
    /\ fetched' = Append(fetched, [url |-> url, at |-> Len(yielded), ok |-> FALSE])
    /\ wpc' = "raised"

\* lines 176, 194: the for loop over the entries of the page has ended, the
\* generator running inside a next() of the consumer
PageFinishedAtLastYield == wpc \in {"running", "suspended"} /\ pos >= Len(r.entry)
PageFinished == wpc = "running" /\ pos > Len(r.entry)

\* the consumer's first next(): the generator starts; lines 167-175
PullFirst ==
    /\ wpc = "created"
    /\ Fetch(InitialUrl)
    /\ records' = 0
    /\ requests' = 1
    /\ seen_ids' = {}
    /\ new_records' = FALSE
    /\ pos' = 1
    /\ wpc' = "running"
    /\ UNCHANGED <<server, limit, yielded>>
    /\ UNCHANGED anonVars

\* the consumer's first next(): the first request fails; line 167
PullFirstFails ==
    /\ wpc = "created"
    /\ FailedFetch(InitialUrl)
    /\ UNCHANGED <<server, limit, pos, records, requests, seen_ids, new_records,
                   yielded>>
    /\ UNCHANGED anonVars

\* lines 176-185: an entry whose id was already yielded is skipped
SkipDuplicate ==
    /\ wpc = "running"
    /\ pos <= Len(r.entry)
    /\ IsSeen(seen_ids, Unwrap(r.entry[pos]).id)
    /\ pos' = pos + 1
    /\ UNCHANGED <<server, limit, r, records, requests, seen_ids, new_records,
                   wpc, yielded, fetched>>
    /\ UNCHANGED anonVars

\* lines 176-189: a new entry is yielded; the generator is suspended at the yield
YieldEntry ==
    /\ wpc = "running"
    /\ pos <= Len(r.entry)
    /\ LET entry == Unwrap(r.entry[pos])
       IN  /\ ~IsSeen(seen_ids, entry.id)
           /\ new_records' = TRUE
           /\ seen_ids' = seen_ids \cup {entry.id}
           /\ yielded' = Append(yielded, entry)
    /\ wpc' = "suspended"
    /\ UNCHANGED <<server, limit, r, pos, records, requests, fetched>>
    /\ UNCHANGED anonVars

\* the consumer's next next(): lines 190-192, then the for loop goes on
PullNext ==
    /\ wpc = "suspended"
    /\ records' = records + 1
    /\ IF LimitReached(limit, records + 1)
       THEN wpc' = "done" /\ pos' = pos
       ELSE wpc' = "running" /\ pos' = pos + 1
    /\ UNCHANGED <<server, limit, r, requests, seen_ids, new_records, yielded, fetched>>
    /\ UNCHANGED anonVars

\* lines 194-202, 174-175: the page is finished and the next one is requested
FollowNext ==
    /\ PageFinished
    /\ ShouldFollow(NextUrl(r), new_records)
    /\ Fetch(NextUrl(r))
    /\ new_records' = FALSE
    /\ requests' = requests + 1
    /\ pos' = 1
    /\ UNCHANGED <<server, limit, records, seen_ids, wpc, yielded>>
    /\ UNCHANGED anonVars

\* lines 194-202: the page is finished and the request for the next one fails
FollowNextFails ==
    /\ PageFinished
    /\ ShouldFollow(NextUrl(r), new_records)
    /\ FailedFetch(NextUrl(r))
    /\ UNCHANGED <<server, limit, pos, records, requests, seen_ids, new_records,
                   yielded>>
    /\ UNCHANGED anonVars

\* lines 194-204: the page is finished and the walk ends
Break ==
    /\ PageFinished
    /\ ~ShouldFollow(NextUrl(r), new_records)
    /\ wpc' = "done"
    /\ UNCHANGED <<server, limit, r, pos, records, requests, seen_ids, new_records,
                   yielded, fetched>>
    /\ UNCHANGED anonVars

\* the consumer stops iterating: the generator is never resumed
StopConsuming ==
    /\ wpc \in {"created", "suspended"}
    /\ wpc' = "closed"
    /\ UNCHANGED <<server, limit, r, pos, records, requests, seen_ids, new_records,
                   yielded, fetched>>
    /\ UNCHANGED anonVars

\* _fhir_list_api_request(path, limit=limit) has been called: the generator
\* exists and has not run
WalkInit ==
    /\ jhe_id_cache = EmptyMap
    /\ reverse_id_cache = EmptyMap
    /\ uuid_n = 0
    /\ firstId = EmptyMap
    /\ uuids = <<>>
    /\ anonymize = TRUE
    /\ threads = NoThreads
    /\ overlapped = FALSE
    /\ last = NoCall
    /\ server \in Servers
    /\ limit \in Limits
    /\ r = EmptyPage
    /\ pos = 0
    /\ records = 0
    /\ requests = 0
    /\ seen_ids = {}
    /\ new_records = FALSE
    /\ wpc = "created"
    /\ yielded = <<>>
    /\ fetched = <<>>

WalkNext ==
    \/ PullFirst
    \/ PullFirstFails
    \/ SkipDuplicate
    \/ YieldEntry
    \/ PullNext
    \/ FollowNext
    \/ FollowNextFails
    \/ Break
    \/ StopConsuming

WalkSpec == WalkInit /\ [][WalkNext]_vars

\* a walk that is consumed to its end and whose requests are all answered:
\* the consumer calls next() again after every entry, and the generator runs
\* on to its next yield or to its end whenever it is resumed
FullWalkNext ==
    \/ PullFirst
    \/ SkipDuplicate
    \/ YieldEntry
    \/ PullNext
    \/ FollowNext
    \/ Break

FullWalkSpec == WalkInit /\ [][FullWalkNext]_vars /\ WF_vars(FullWalkNext)

(***************************************************************************)
(* The anonymization engine alone: no walk is made.                        *)
(***************************************************************************)
Init ==
    /\ jhe_id_cache = EmptyMap
    /\ reverse_id_cache = EmptyMap
    /\ uuid_n = 0
    /\ firstId = EmptyMap
    /\ uuids = <<>>
    /\ anonymize = TRUE
    /\ threads = NoThreads
    /\ overlapped = FALSE
    /\ last = NoCall
    /\ server = [url \in Urls |-> EmptyPage]
    /\ limit = PyNone
    /\ r = EmptyPage
    /\ pos = 0
    /\ records = 0
    /\ requests = 0
    /\ seen_ids = {}
    /\ new_records = FALSE
    /\ wpc = "idle"
    /\ yielded = <<>>
    /\ fetched = <<>>

Next ==
    \/ CallAnonymizeUser
    \/ CallAnonymizePatient
    \/ CallAnonymizeObservation
    \/ CallDeanonymizeId
    \/ TakeResult

Spec == Init /\ [][Next]_vars

(***************************************************************************)
(* The client with anonymize=True: the caches are filled by the records    *)
(* its methods return.                                                     *)
(***************************************************************************)
ClientNext ==
    \/ CallGetPatient
    \/ CallGetPatientConsents
    \/ CallListObservations
    \/ TakeResult

ClientSpec == Init /\ [][ClientNext]_vars

(***************************************************************************)
(* A client made with anonymize=True or anonymize=False, looking patients  *)
(* up by their external id.                                                *)
(***************************************************************************)
LookupInit ==
    /\ jhe_id_cache = EmptyMap
    /\ reverse_id_cache = EmptyMap
    /\ uuid_n = 0
    /\ firstId = EmptyMap
    /\ uuids = <<>>
    /\ anonymize \in BOOLEAN
    /\ threads = NoThreads
    /\ overlapped = FALSE
    /\ last = NoCall
    /\ server = [url \in Urls |-> EmptyPage]
    /\ limit = PyNone
    /\ r = EmptyPage
    /\ pos = 0
    /\ records = 0
    /\ requests = 0
    /\ seen_ids = {}
    /\ new_records = FALSE
    /\ wpc = "idle"
    /\ yielded = <<>>
    /\ fetched = <<>>

LookupNext ==
    \/ CallGetPatientByExternalId
    \/ TakeResult

LookupSpec == LookupInit /\ [][LookupNext]_vars

(***************************************************************************)
(* _random_id statement by statement, lines 44-51, called by threads that  *)
(* share the two caches.  A thread is outside the function (idle) or at    *)
(* the statement it executes next:                                         *)
(*   lookup    45  if id_key not in _jhe_id_cache:                         *)
(*   draw      46      new_id = random.randint(start, start + 10_000)      *)
(*   check     47      while new_id in _reverse_id_cache:                  *)
(*   redraw    48          new_id = random.randint(start, start + 10_000)  *)
(*   store_fwd 49      _jhe_id_cache[id_key] = new_id                      *)
(*   store_rev 50      _reverse_id_cache[new_id] = id_key                  *)
(*   return    51  return _jhe_id_cache[id_key]                            *)
(***************************************************************************)
Threads == {"a", "b"}

\* the calls made: anonymize_user's, _random_id(user["id"], "User", start=10_000)
ThreadCalls ==
    {[id |-> PyInt(n), kind |-> <<"User">>, start |-> UserStart] : n \in UserIds \cup {7}}

IdleThread == [pc |-> "idle", id_key |-> <<>>, start |-> 0, new_id |-> 0, ret |-> 0]

Inside(t) == threads[t].pc # "idle"

\* line 47: new_id in _reverse_id_cache
InReverseNever(rev, new_id) == FALSE
InReverse(rev, new_id) == new_id \in DOMAIN rev

\* what a statement of _random_id does not write
ThreadFrame ==
    /\ UNCHANGED <<uuid_n, last, firstId, uuids, anonymize>>
    /\ UNCHANGED walkVars

\* thread t goes on to statement pc
Goto(t, pc) == threads' = [threads EXCEPT ![t].pc = pc]

\* the call, and line 44
Enter(t) ==
    /\ ~Inside(t)
    /\ \E c \in ThreadCalls :
         threads' = [threads EXCEPT ![t] =
                        [pc |-> "lookup", id_key |-> IdKey(c.id, c.kind),
                         start |-> c.start, new_id |-> 0, ret |-> 0]]
    /\ overlapped' = (overlapped \/ \E u \in DOMAIN threads \ {t} : Inside(u))
    /\ UNCHANGED <<jhe_id_cache, reverse_id_cache>>
    /\ ThreadFrame

\* line 45
Lookup(t) ==
    /\ threads[t].pc = "lookup"
    /\ IF IsCached(jhe_id_cache, threads[t].id_key)
       THEN Goto(t, "return")
       ELSE Goto(t, "draw")
    /\ UNCHANGED <<jhe_id_cache, reverse_id_cache, overlapped>>
    /\ ThreadFrame

\* line 46
Draw(t) ==
    /\ threads[t].pc = "draw"
    /\ \E new_id \in RangeOf(threads[t].start) :
         threads' = [threads EXCEPT ![t].new_id = new_id, ![t].pc = "check"]
    /\ UNCHANGED <<jhe_id_cache, reverse_id_cache, overlapped>>
    /\ ThreadFrame

\* line 47
Check(t) ==
    /\ threads[t].pc = "check"
    /\ IF InReverse(reverse_id_cache, threads[t].new_id)
       THEN Goto(t, "redraw")
       ELSE Goto(t, "store_fwd")
    /\ UNCHANGED <<jhe_id_cache, reverse_id_cache, overlapped>>
    /\ ThreadFrame

\* line 48
Redraw(t) ==
    /\ threads[t].pc = "redraw"
    /\ \E new_id \in RangeOf(threads[t].start) :
         threads' = [threads EXCEPT ![t].new_id = new_id, ![t].pc = "check"]
    /\ UNCHANGED <<jhe_id_cache, reverse_id_cache, overlapped>>
    /\ ThreadFrame

\* line 49
StoreForward(t) ==
    /\ threads[t].pc = "store_fwd"
    /\ jhe_id_cache' = (threads[t].id_key :> threads[t].new_id) @@ jhe_id_cache
    /\ Goto(t, "store_rev")
    /\ UNCHANGED <<reverse_id_cache, overlapped>>
    /\ ThreadFrame

\* line 50
StoreReverse(t) ==
    /\ threads[t].pc = "store_rev"
    /\ reverse_id_cache' = (threads[t].new_id :> threads[t].id_key) @@ reverse_id_cache
    /\ Goto(t, "return")
    /\ UNCHANGED <<jhe_id_cache, overlapped>>
    /\ ThreadFrame

\* line 51
Return(t) ==
    /\ threads[t].pc = "return"
    /\ threads' = [threads EXCEPT ![t].ret = jhe_id_cache[threads[t].id_key],
                                  ![t].pc = "idle"]
    /\ UNCHANGED <<jhe_id_cache, reverse_id_cache, overlapped>>
    /\ ThreadFrame

\* the caches are empty and the threads of ts have not called yet
ThreadsInit(ts) ==
    /\ jhe_id_cache = EmptyMap
    /\ reverse_id_cache = EmptyMap
    /\ uuid_n = 0
    /\ firstId = EmptyMap
    /\ uuids = <<>>
    /\ anonymize = TRUE
    /\ threads = [t \in ts |-> IdleThread]
    /\ overlapped = FALSE
    /\ last = NoCall
    /\ server = [url \in Urls |-> EmptyPage]
    /\ limit = PyNone
    /\ r = EmptyPage
    /\ pos = 0
    /\ records = 0
    /\ requests = 0
    /\ seen_ids = {}
    /\ new_records = FALSE
    /\ wpc = "idle"
    /\ yielded = <<>>
    /\ fetched = <<>>

ThreadNext ==
    \E t \in DOMAIN threads :
        \/ Enter(t)
        \/ Lookup(t)
        \/ Draw(t)
        \/ Check(t)
        \/ Redraw(t)
        \/ StoreForward(t)
        \/ StoreReverse(t)
        \/ Return(t)

\* two threads, switched between any two statements
ThreadInit == ThreadsInit(Threads)

ThreadSpec == ThreadInit /\ [][ThreadNext]_vars

\* a draw of an id the reverse cache does not hold
DrawFree ==
    \E t \in DOMAIN threads :
        /\ Draw(t) \/ Redraw(t)
        /\ threads'[t].new_id \notin DOMAIN reverse_id_cache

\* one thread: it goes on whenever it can, and random.randint is fair: a
\* value that can be drawn again and again is drawn in the end
RetryInit == ThreadsInit({"a"})

RetrySpec ==
    /\ RetryInit
    /\ [][ThreadNext]_vars
    /\ WF_vars(ThreadNext)
    /\ SF_vars(DrawFree)

(***************************************************************************)
(* The noise alone: lines 144-148 applied to one value.                    *)
(***************************************************************************)
\* ints, and floats of whole and of half values
ScaleValues ==
    {PyInt(n) : n \in (-MaxValue)..MaxValue}
    \cup {Float(n, 2) : n \in (-MaxValue)..MaxValue}

\* noise_scale: the default 0.2, and 0.25 and 1
NoiseScales == {DefaultNoiseScale, <<1, 4>>, <<1, 1>>}

CallScaleValue ==
    /\ Idle
    /\ \E value \in ScaleValues, noise_scale \in NoiseScales, j \in 0..(RandSteps - 1) :
         Settle("_scale_value", [value |-> value, noise_scale |-> noise_scale],
                NoRequest, "returned", NoisyValue(value, noise_scale, j))

ScaleNext ==
    \/ CallScaleValue
    \/ TakeResult

ScaleSpec == Init /\ [][ScaleNext]_vars

(***************************************************************************)
(* Claims about the anonymization engine.                                  *)
(***************************************************************************)
AnonymizeOps == {"anonymize_user", "anonymize_patient", "anonymize_observation"}

Pair(kind, id) == [kind |-> <<kind>>, id |-> id]

\* the synthetic ids handed out so far
Produced == {firstId[p] : p \in DOMAIN firstId}

\* C1: every call that maps a (kind, id) pair returns the synthetic id the
\* first call mapping that pair returned, and the record returned carries it:
\* the id of a user, the id and jheUserId of a patient, the id of an observation.
C1_Idempotent ==
    /\ \A k \in 1..Len(last.calls) :
          LET c == last.calls[k]
          IN  c.ret = firstId[[kind |-> c.kind, id |-> c.id]]
    /\ (last.op = "anonymize_user" /\ last.status = "returned") =>
          last.ret.id = PyInt(firstId[Pair("User", last.arg.id)])
    /\ (last.op = "anonymize_patient" /\ last.status = "returned") =>
          /\ last.ret.id = PyInt(firstId[Pair("Patient", last.arg.id)])
          /\ last.ret.jheUserId = PyInt(firstId[Pair("User", last.arg.jheUserId)])
    /\ (last.op = "anonymize_observation" /\ last.status = "returned") =>
          last.ret.id = PyInt(firstId[Pair("Observation", last.arg.id)])

\* C1 witness: a patient anonymized again, both of its ids found in the cache
C1_Witness ==
    /\ last.op = "anonymize_patient"
    /\ last.status = "returned"
    /\ Len(last.calls) = 2
    /\ \A k \in 1..2 : last.calls[k].hit

\* C2 as claimed: deanonymize_id of the synthetic id of every mapped pair
\* returns the original id exactly.
C2_ReversibleExactly ==
    \A p \in DOMAIN firstId :
        DeanonymizeId(reverse_id_cache, PyInt(firstId[p]))
            = [status |-> "returned", ret |-> p.id]

\* C2 amended: deanonymize_id of the synthetic id of every mapped pair returns
\* the original id as an int: the original itself when it is an int, int(id)
\* when it is a string of decimal digits (an Observation's record id).
C2_ReversibleAsInt ==
    \A p \in DOMAIN firstId :
        LET d == DeanonymizeId(reverse_id_cache, PyInt(firstId[p]))
        IN  /\ d.status = "returned"
            /\ d.ret = PyInt(ToInt(p.id).val)
            /\ (p.id.t = "int" => d.ret = p.id)

\* C2 witness: deanonymize_id has just been called with a synthetic id, with
\* pairs of int and of str ids mapped
C2_Witness ==
    /\ last.op = "deanonymize_id"
    /\ last.arg.t = "int" /\ last.arg.i \in Produced
    /\ \E p, q \in DOMAIN firstId : p.id.t = "int" /\ q.id.t = "str"

\* C3: deanonymize_id of an id the cache never produced returns that id
\* unchanged and raises nothing.
C3_PassThrough ==
    /\ \A id \in DeanonymizeArgs :
          ~(id.t = "int" /\ id.i \in Produced) =>
              DeanonymizeId(reverse_id_cache, id) = [status |-> "returned", ret |-> id]
    /\ (last.op = "deanonymize_id" /\ ~(last.arg.t = "int" /\ last.arg.i \in Produced)) =>
          (last.status = "returned" /\ last.ret = last.arg)

\* C3 witness: deanonymize_id called with an unknown id while the cache holds ids
C3_Witness ==
    /\ last.op = "deanonymize_id"
    /\ ~(last.arg.t = "int" /\ last.arg.i \in Produced)
    /\ Produced # {}

\* C4: no two distinct keys of the cache hold the same synthetic id.
C4_UniqueIds ==
    \A k1, k2 \in DOMAIN jhe_id_cache :
        k1 # k2 => jhe_id_cache[k1] # jhe_id_cache[k2]

\* C4 witness: keys of two kinds hold ids of the same range
C4_Witness ==
    \E k1, k2 \in DOMAIN jhe_id_cache :
        /\ k1[1] = "User" /\ k2[1] = "Patient"
        /\ {jhe_id_cache[k1], jhe_id_cache[k2]}
              \subseteq PatientStart..(PatientStart + RangeWidth)

\* C10: after a call of anonymize_user, anonymize_patient or
\* anonymize_observation, returned or not, the caller's record equals its
\* value before the call.
C10_NonMutation ==
    last.op \in AnonymizeOps => last.caller = last.arg

\* C10 witness: anonymize_observation has returned a record that differs from
\* its argument in the id, an identifier, the subject and the attachment
C10_Witness ==
    /\ last.op = "anonymize_observation"
    /\ last.status = "returned"
    /\ last.ret.id # last.arg.id
    /\ last.ret.identifier # last.arg.identifier
    /\ last.ret.subject # last.arg.subject
    /\ last.ret.valueAttachment # last.arg.valueAttachment

(***************************************************************************)
(* Claims about the pagination walker.                                     *)
(***************************************************************************)
YieldedIds == [k \in 1..Len(yielded) |-> yielded[k].id]

\* the id of an entry of a page, wrapped or not
EntryId(entry) == IF "resource" \in DOMAIN entry THEN entry.resource.id ELSE entry.id

PageIds(page) == [k \in 1..Len(page.entry) |-> EntryId(page.entry[k])]

RECURSIVE NewIds(_, _)
\* the ids of a sequence that are not in seen, each once, in order of first occurrence
NewIds(ids, seen) ==
    IF ids = <<>> THEN <<>>
    ELSE IF Head(ids) \in seen THEN NewIds(Tail(ids), seen)
    ELSE <<Head(ids)>> \o NewIds(Tail(ids), seen \cup {Head(ids)})

HasNextLink(page) == \E k \in 1..Len(page.link) : page.link[k].relation = "next"

NextTarget(page) ==
    page.link[CHOOSE k \in 1..Len(page.link) : page.link[k].relation = "next"].url

RECURSIVE ExpectedFrom(_, _)
\* the distinct ids of the pages from url on, up to and including the first
\* page that has no "next" link or holds no id outside seen
ExpectedFrom(url, seen) ==
    LET new == NewIds(PageIds(server[url]), seen)
    IN  IF new # <<>> /\ HasNextLink(server[url])
        THEN new \o ExpectedFrom(NextTarget(server[url]),
                                 seen \cup {new[k] : k \in 1..Len(new)})
        ELSE new

\* the entries an unlimited walk yields
Available == Len(ExpectedFrom(InitialUrl, {}))

\* C5: within a walk no entry id is yielded more than once.
C5_NoDuplicateYield ==
    \A i, j \in 1..Len(yielded) : i # j => yielded[i].id # yielded[j].id

\* C5 witness: a finished walk over three pages that met an id repeated in one
\* page, an id of the page before, and the ids of the first page two pages later
C5_Witness ==
    /\ wpc = "done"
    /\ Len(fetched) = 3
    /\ PageIds(server[InitialUrl]) = <<"1", "1">>
    /\ PageIds(server[fetched[2].url]) = <<"1", "2">>
    /\ fetched[3].url = InitialUrl
    /\ YieldedIds = <<"1", "2">>

\* C6 as claimed: with a limit k >= 0 supplied, never more than k entries are
\* yielded.
C6_LimitUpperBound ==
    limit.t = "int" => Len(yielded) <= limit.i

\* what holds of C6: with a limit k >= 1, never more than k entries are
\* yielded, and the generator does not run once k entries are yielded
C6_PositiveLimitUpperBound ==
    (limit.t = "int" /\ limit.i >= 1) =>
        /\ Len(yielded) <= limit.i
        /\ (wpc = "running" => Len(yielded) < limit.i)

\* C7 as claimed: a finished walk with limit k over more than k available
\* entries has yielded exactly k entries, and made no request after the k-th.
C7_ExactLimit ==
    (wpc = "done" /\ limit.t = "int" /\ Available > limit.i) =>
        /\ Len(yielded) = limit.i
        /\ \A k \in 1..Len(fetched) : fetched[k].at <= limit.i
        /\ \A k \in 2..Len(fetched) : fetched[k].at < limit.i

\* what holds of C7: the same with a limit k >= 1
C7_ExactPositiveLimit ==
    (wpc = "done" /\ limit.t = "int" /\ limit.i >= 1 /\ Available > limit.i) =>
        /\ Len(yielded) = limit.i
        /\ \A k \in 1..Len(fetched) : fetched[k].at < limit.i

ChainUrls ==
    LET step(urls) ==
            urls \cup {NextTarget(server[url]) : url \in {u \in urls : HasNextLink(server[u])}}
    IN  step(step({InitialUrl}))

PatientRewrites ==
    {"id", "jheUserId", "nameGiven", "nameFamily", "birthDate",
     "telecomPhone", "telecomEmail", "identifier"}

\* a patient with a phone, an email and an external identifier
HasContact(patient) ==
    /\ Truthy(patient.telecomPhone)
    /\ Truthy(patient.telecomEmail)
    /\ Truthy(patient.identifier)

\* C11 as claimed: an anonymized patient that had a phone, an email and an
\* identifier keeps its organizationId and differs from the original in every
\* other field; an anonymized user differs from the original in every field.
C11_FieldChangeSet ==
    /\ ( /\ last.op = "anonymize_patient"
         /\ last.status = "returned"
         /\ HasContact(last.arg) ) =>
          /\ last.ret.organizationId = last.arg.organizationId
          /\ \A k \in PatientRewrites : last.ret[k] # last.arg[k]
    /\ (last.op = "anonymize_user" /\ last.status = "returned") =>
          \A k \in DOMAIN last.arg : last.ret[k] # last.arg[k]

\* a record of patient id, as the server holds it
PatientOf(id) == PatientRecord(id, CHOOSE u \in UserIds : TRUE, TRUE)

\* C12: records anonymized one after the other, in any order, agree on what
\* they share: a patient's jheUserId is the id its user is given, a user's id
\* is the jheUserId its patients are given, and the subject "Patient/p" of an
\* observation becomes "Patient/<s>" with s the id patient p is given, and
\* deanonymize_id(s) returns p.
C12_CrossReference ==
    /\ (last.op = "anonymize_patient" /\ last.status = "returned") =>
          \A user \in Users :
              user.id = last.arg.jheUserId =>
                  \A o \in AnonymizeUser(CurrentEnv, user) :
                      o.status = "returned" /\ o.ret.id = last.ret.jheUserId
    /\ (last.op = "anonymize_user" /\ last.status = "returned") =>
          \A o \in AnonymizePatient(CurrentEnv,
                                    PatientRecord(12, last.arg.id.i, TRUE)) :
              o.status = "returned" => o.ret.jheUserId = last.ret.id
    /\ (last.op = "anonymize_observation" /\ last.status = "returned") =>
          \A p \in PatientIds :
              last.arg.subject.reference = PatientReference(p) =>
                  \E s \in PatientStart..(PatientStart + RangeWidth) :
                      /\ last.ret.subject.reference = PatientReference(s)
                      /\ DeanonymizeId(reverse_id_cache, PyInt(s))
                            = [status |-> "returned", ret |-> PyInt(p)]
                      /\ \A o \in AnonymizePatient(CurrentEnv, PatientOf(p)) :
                            o.status = "returned" => o.ret.id = PyInt(s)

\* C12 witness: an observation of patient 12 anonymized after the patient, its
\* subject found in the cache, and the patient's user anonymized as well
C12_Witness ==
    /\ last.op = "anonymize_observation"
    /\ last.status = "returned"
    /\ last.arg.subject.reference = PatientReference(12)
    /\ Len(last.calls) = 2
    /\ ~last.calls[1].hit
    /\ last.calls[2].hit
    /\ \E u \in UserIds : Pair("User", PyInt(u)) \in DOMAIN firstId

(***************************************************************************)
(* Claims about the client methods that take a patient id.                 *)
(***************************************************************************)
PatientMethods == {"get_patient", "get_patient_consents", "list_observations"}

\* the patient id a request names, as it is written in the request
RequestedPatient(request) ==
    IF request.path = <<"Observation">> THEN Format(request.params.patient)
    ELSE Partition(Partition(request.path, "/")[3], "/")[1]

\* the pairs ("Patient", p) whose synthetic id is id
PatientsGiven(id) ==
    {p \in DOMAIN firstId : p.kind = <<"Patient">> /\ PyInt(firstId[p]) = id}

\* C13 as claimed: when a method that takes a patient id is called with the
\* synthetic id of patient p, the request it sends names p.
C13_QueryKeys ==
    last.op \in PatientMethods =>
        \A p \in PatientsGiven(last.arg) :
            /\ last.request # NoRequest
            /\ RequestedPatient(last.request) = Format(p.id)

\* what holds of C13: the same of get_patient_consents and list_observations
C13_DeanonymizingQueryKeys ==
    last.op \in PatientMethods \ {"get_patient"} =>
        \A p \in PatientsGiven(last.arg) :
            /\ last.request # NoRequest
            /\ RequestedPatient(last.request) = Format(p.id)

\* C14 as claimed: when get_patient_consents or list_observations is called
\* with the real id r of a patient, the request it sends names r, whatever
\* the caches hold.
C14_RealIds ==
    ( /\ last.op \in {"get_patient_consents", "list_observations"}
      /\ last.arg \in {PyInt(n) : n \in PatientIds} ) =>
        /\ last.request # NoRequest
        /\ RequestedPatient(last.request) = Format(last.arg)

\* what holds of C14: the same when r is the synthetic id of nothing
C14_UnmappedRealIds ==
    ( /\ last.op \in {"get_patient_consents", "list_observations"}
      /\ last.arg \in {PyInt(n) : n \in PatientIds}
      /\ last.arg.i \notin Produced ) =>
        /\ last.request # NoRequest
        /\ RequestedPatient(last.request) = Format(last.arg)

(***************************************************************************)
(* Claims about the structure of the records returned.                     *)
(***************************************************************************)
\* C15 as claimed: every key of a user, patient or observation is a key of
\* the record anonymizing it returns, also for a patient whose phone, email
\* or identifier is None.
C15_StructuralIdentity ==
    (last.op \in AnonymizeOps /\ last.status = "returned") =>
        DOMAIN last.arg \subseteq DOMAIN last.ret

\* what holds of C15: the keys are the same for users, for observations and
\* for patients with a phone, an email and an identifier; a patient loses
\* exactly the keys of these three whose value is None
C15_KeysOfFalsyFieldsDropped ==
    (last.op \in AnonymizeOps /\ last.status = "returned") =>
        /\ DOMAIN last.ret \subseteq DOMAIN last.arg
        /\ DOMAIN last.arg \ DOMAIN last.ret =
              IF last.op = "anonymize_patient"
              THEN {k \in {"telecomPhone", "telecomEmail", "identifier"} :
                       ~Truthy(last.arg[k])}
              ELSE {}

(***************************************************************************)
(* Claims about the noise.                                                 *)
(***************************************************************************)
Min(a, b) == IF a <= b THEN a ELSE b

Max(a, b) == IF a >= b THEN a ELSE b

\* num / den lies between m * (1 - s/2) and m * (1 + s/2), s = sn / sd
Within(num, den, m, noise_scale) ==
    LET sn == noise_scale[1]
        sd == noise_scale[2]
        a == m * (2 * sd - sn)
        b == m * (2 * sd + sn)
    IN  /\ Min(a, b) * den <= num * 2 * sd
        /\ num * 2 * sd <= Max(a, b) * den

\* the integer n is some x truncated towards zero, x between m * (1 - s/2)
\* and m * (1 + s/2): |n| <= |x| < |n| + 1, and n is not of the other sign
WithinTruncated(n, m, noise_scale) ==
    LET sn == noise_scale[1]
        sd == noise_scale[2]
        a == Abs(m * (2 * sd - sn))
        b == Abs(m * (2 * sd + sn))
    IN  /\ Abs(n) * 2 * sd <= Max(a, b)
        /\ (Abs(n) + 1) * 2 * sd > Min(a, b)
        /\ n * m >= 0

\* m is a multiple of ten nearest to num / den
NearestTen(m, num, den) == m % 10 = 0 /\ Abs(num - m * den) <= 5 * den

Tens == {10 * k : k \in (-(MaxValue \div 10) - 1)..((MaxValue \div 10) + 1)}

\* C16 as claimed: the value returned for v lies between round(v, -1) * (1 - s/2)
\* and round(v, -1) * (1 + s/2), and is an int exactly when v is an int.
C16_NoiseBounds ==
    last.op = "_scale_value" =>
        /\ Within(last.ret.i, last.ret.d,
                  10 * RoundTenths(last.arg.value.i, last.arg.value.d),
                  last.arg.noise_scale)
        /\ last.ret.t = last.arg.value.t

\* C16 amended: with m the multiple of ten nearest to v, a float v is returned
\* as a float between m * (1 - s/2) and m * (1 + s/2); an int v is returned as
\* an int, a value between these bounds truncated towards zero.
C16_NoiseBoundsBeforeCast ==
    last.op = "_scale_value" =>
        /\ last.ret.t = last.arg.value.t
        /\ \E m \in Tens :
              /\ NearestTen(m, last.arg.value.i, last.arg.value.d)
              /\ IF last.arg.value.t = "int"
                 THEN WithinTruncated(last.ret.i, m, last.arg.noise_scale)
                 ELSE Within(last.ret.i, last.ret.d, m, last.arg.noise_scale)

\* C16 witness: the int 10 with noise scale 0.25 and random() = 0 is returned
\* as 8, the int part of 8.75
C16_Witness ==
    /\ last.op = "_scale_value"
    /\ last.arg = [value |-> PyInt(10), noise_scale |-> <<1, 4>>]
    /\ last.ret = PyInt(8)

(***************************************************************************)
(* Claims about the observation returned.                                  *)
(***************************************************************************)
\* the JSON document of the attachment of an observation
Document(observation) == DecodeAttachment(observation.valueAttachment.data)

\* the body entries that are dicts with a value
ValuedFields(body) == {fld \in DOMAIN body : IsDict(body[fld]) /\ HasValue(body[fld])}

HeaderIds == {"uuid", "source_data_point_id"}

ObservationReturned == last.op = "anonymize_observation" /\ last.status = "returned"

\* C17 as claimed: the observation returned with the default noise scale
\* differs from the original in the id, every identifier value, the subject
\* reference, the uuid and source_data_point_id of the header and every
\* numeric value of the body.
C17_ObservationChangeSet ==
    ObservationReturned =>
        /\ last.ret.id # last.arg.id
        /\ \A j \in 1..Len(last.arg.identifier) :
              last.ret.identifier[j].value # last.arg.identifier[j].value
        /\ last.ret.subject.reference # last.arg.subject.reference
        /\ \A k \in HeaderIds \cap DOMAIN Document(last.arg).header :
              Document(last.ret).header[k] # Document(last.arg).header[k]
        /\ \A fld \in ValuedFields(Document(last.arg).body) :
              Document(last.ret).body[fld].value # Document(last.arg).body[fld].value

\* what holds of C17: the id, the identifier values and the header ids differ
\* from these originals
C17_IdsChange ==
    ObservationReturned =>
        /\ last.ret.id # last.arg.id
        /\ \A j \in 1..Len(last.arg.identifier) :
              last.ret.identifier[j].value # last.arg.identifier[j].value
        /\ \A k \in HeaderIds \cap DOMAIN Document(last.arg).header :
              Document(last.ret).header[k] # Document(last.arg).header[k]

\* the top-level fields anonymize_observation writes into
ObservationTargets == {"id", "identifier", "subject", "valueAttachment"}

\* records a and b have the same keys and the same values but under the keys
\* of targets
SameBut(a, b, targets) ==
    /\ DOMAIN a = DOMAIN b
    /\ \A k \in DOMAIN a \ targets : a[k] = b[k]

\* C18: the observation returned has the keys of the original at every level
\* and equals it in every field but the id, the identifier values, the
\* subject reference, the uuid and source_data_point_id of the header and the
\* values of the body entries that have one: resourceType, meta, status,
\* code, the identifier systems, the contentType, the other header fields, the
\* units, the time frames and the entries without a value are unchanged.
C18_ObservationFrame ==
    ObservationReturned =>
        /\ SameBut(last.ret, last.arg, ObservationTargets)
        /\ Len(last.ret.identifier) = Len(last.arg.identifier)
        /\ \A j \in 1..Len(last.arg.identifier) :
              SameBut(last.ret.identifier[j], last.arg.identifier[j], {"value"})
        /\ SameBut(last.ret.subject, last.arg.subject, {"reference"})
        /\ SameBut(last.ret.valueAttachment, last.arg.valueAttachment, {"data"})
        /\ SameBut(Document(last.ret), Document(last.arg), {"header", "body"})
        /\ SameBut(Document(last.ret).header, Document(last.arg).header, HeaderIds)
        /\ LET body == Document(last.arg).body
               new_body == Document(last.ret).body
           IN  /\ DOMAIN new_body = DOMAIN body
               /\ \A fld \in DOMAIN body :
                     IF fld \in ValuedFields(body)
                     THEN SameBut(new_body[fld], body[fld], {"value"})
                     ELSE new_body[fld] = body[fld]

\* C18 witness: the blood pressure observation returned with new values, its
\* header holding a schema, timestamps and datasheets, its body a time frame
C18_Witness ==
    /\ ObservationReturned
    /\ Document(last.arg) = BpAttachment
    /\ Document(last.ret).header.uuid # BpAttachment.header.uuid
    /\ Document(last.ret).body.systolic_blood_pressure.value = PyInt(108)
    /\ Document(last.ret).header.external_datasheets
          = BpAttachment.header.external_datasheets
    /\ Document(last.ret).body.effective_time_frame
          = BpAttachment.body.effective_time_frame

(***************************************************************************)
(* Claims about a walk whose request fails.                                *)
(***************************************************************************)
\* the requests that failed
Failed == {k \in 1..Len(fetched) : ~fetched[k].ok}

RECURSIVE IdsOfPages(_)
\* the ids of the pages the first n requests answered, in order
IdsOfPages(n) ==
    IF n = 0 THEN <<>>
    ELSE IdsOfPages(n - 1) \o PageIds(server[fetched[n].url])

\* C19: when a request fails the walk ends with the failure, raised inside the
\* consumer's next(); the request that failed is the last one and was made
\* once, nothing was yielded after it, and every new entry of the pages
\* before it has been yielded.
C19_FetchFailure ==
    /\ wpc = "raised" <=> Failed # {}
    /\ Failed # {} =>
          /\ Failed = {Len(fetched)}
          /\ Len(yielded) = fetched[Len(fetched)].at
          /\ YieldedIds = NewIds(IdsOfPages(Len(fetched) - 1), {})

\* C19 witness: the request for the third page has failed after the first two
\* pages yielded "1" and "2", the second page repeating "1"
C19_Witness ==
    /\ wpc = "raised"
    /\ Len(fetched) = 3
    /\ PageIds(server[fetched[2].url]) = <<"1", "2">>
    /\ YieldedIds = <<"1", "2">>

(***************************************************************************)
(* Claims about observations that lack what the function reads.            *)
(***************************************************************************)
\* the subject reference has no "/" or no number after it
MalformedReference(observation) ==
    LET parts == Partition(observation.subject.reference.s, "/")
    IN  \/ parts[2] = <<>>
        \/ parts[3] = <<>>
        \/ \E k \in 1..Len(parts[3]) : ~IsDigit(parts[3][k])

\* the valueAttachment, or the body or the header of its document, is absent
MissingSection(observation) ==
    \/ "valueAttachment" \notin DOMAIN observation
    \/ "body" \notin DOMAIN Document(observation)
    \/ "header" \notin DOMAIN Document(observation)

\* C20: anonymize_observation of an observation whose subject reference is
\* malformed ends in ValueError, and of one without valueAttachment, body or
\* header in KeyError; no record is returned.  (A call whose _random_id finds
\* no free id ends in neither: it does not end.)
C20_NoDefaults ==
    last.op = "anonymize_observation" =>
        /\ MalformedReference(last.arg) =>
              last.status \in {"ValueError", "spinning"} /\ last.ret = EmptyRecord
        /\ (~MalformedReference(last.arg) /\ MissingSection(last.arg)) =>
              last.status \in {"KeyError", "spinning"} /\ last.ret = EmptyRecord

\* C20 witness: an observation whose document has no header has ended in
\* KeyError, its ids already in the cache
C20_Witness ==
    /\ last.op = "anonymize_observation"
    /\ last.status = "KeyError"
    /\ "valueAttachment" \in DOMAIN last.arg
    /\ "header" \notin DOMAIN Document(last.arg)
    /\ Len(last.calls) = 2

(***************************************************************************)
(* Claims about the ranges of the synthetic ids.                           *)
(***************************************************************************)
\* the start of the range of a kind
StartOf(kind) ==
    CASE kind = "User" -> UserStart
      [] kind = "Patient" -> PatientStart
      [] kind = "Observation" -> ObservationStart

\* C22 as claimed: every synthetic id the cache holds under a key of kind
\* User, Patient or Observation lies in the range of that kind, whichever
\* function created the entry.
C22_KindRanges ==
    \A id_key \in DOMAIN jhe_id_cache :
        jhe_id_cache[id_key] \in RangeOf(StartOf(id_key[1]))

\* what holds of C22: an id lies in the range of its kind unless an
\* observation's subject reference created the entry, and then in the range
\* of Patient
C22_RangeOfCaller ==
    \A id_key \in DOMAIN jhe_id_cache :
        \/ jhe_id_cache[id_key] \in RangeOf(StartOf(id_key[1]))
        \/ jhe_id_cache[id_key] \in RangeOf(PatientStart)

(***************************************************************************)
(* Claims about the consistency of the two caches.                         *)
(***************************************************************************)
\* the forward and the reverse cache are inverses of each other
Inverses(fwd, rev) ==
    /\ \A id_key \in DOMAIN fwd :
           fwd[id_key] \in DOMAIN rev /\ rev[fwd[id_key]] = id_key
    /\ \A new_id \in DOMAIN rev :
           rev[new_id] \in DOMAIN fwd /\ fwd[rev[new_id]] = new_id

\* the keys the calls of _random_id of the last operation did not find
MissedKeys(call) ==
    {IdKey(call.calls[i].id, call.calls[i].kind) :
        i \in {j \in DOMAIN call.calls : ~call.calls[j].hit}}

\* C27: between operations the forward and the reverse cache are exact
\* inverses; an operation keeps every entry as it is, adds entries only for
\* the keys its calls of _random_id did not find, and deanonymize_id changes
\* neither cache.
C27_CacheConsistency ==
    /\ [] Inverses(jhe_id_cache, reverse_id_cache)
    /\ [][/\ \A id_key \in DOMAIN jhe_id_cache :
                /\ id_key \in DOMAIN jhe_id_cache'
                /\ jhe_id_cache'[id_key] = jhe_id_cache[id_key]
          /\ \A new_id \in DOMAIN reverse_id_cache :
                /\ new_id \in DOMAIN reverse_id_cache'
                /\ reverse_id_cache'[new_id] = reverse_id_cache[new_id]
          /\ DOMAIN jhe_id_cache' \ DOMAIN jhe_id_cache \subseteq MissedKeys(last')
          /\ last'.op = "deanonymize_id" =>
                UNCHANGED <<jhe_id_cache, reverse_id_cache>>]_vars

\* a second entry was added next to a first, and deanonymize_id has run on
\* the two-entry caches
C27_Witness ==
    /\ Cardinality(DOMAIN jhe_id_cache) >= 2
    /\ Cardinality(DOMAIN reverse_id_cache) >= 2
    /\ last.op = "deanonymize_id"
    /\ last.status = "returned"
    /\ last.arg.t = "int"
    /\ last.arg.i \in DOMAIN reverse_id_cache

(***************************************************************************)
(* Claims about the end of a walk that is consumed to its end.             *)
(***************************************************************************)
\* the ids the pages of the server hold
ServerIds == UNION {{PageIds(server[url])[k] : k \in 1..Len(server[url].entry)} : url \in Urls}

C23_PullBased ==
    /\ [][fetched' # fetched =>
             \/ wpc = "created"
             \/ wpc = "running" /\ pos > Len(r.entry)]_vars
    /\ [](wpc = "suspended" => fetched[Len(fetched)].at < Len(yielded))
    /\ [][wpc = "closed" => (wpc' = "closed" /\ fetched' = fetched)]_vars

\* C23 witness: the consumer has stopped after the last entry of a first page
\* that has a "next" link, and only the first page was requested
C23_Witness ==
    /\ wpc = "closed"
    /\ Len(yielded) > 0
    /\ pos = Len(r.entry)
    /\ HasNextLink(r)
    /\ NextTarget(r) # InitialUrl
    /\ new_records
    /\ Len(fetched) = 1

(***************************************************************************)
(* Claims about the counter of _random_uuid.                               *)
(***************************************************************************)
\* the strings of seq, as a set
Range(seq) == {seq[k] : k \in 1..Len(seq)}

\* the placeholders the record returned by the last call carries
PlacedUuids ==
    IF last.op = "anonymize_patient" /\ last.status = "returned"
    THEN IF Truthy(last.arg.identifier) THEN <<last.ret.identifier>> ELSE <<>>
    ELSE IF ObservationReturned
    THEN [j \in 1..Len(last.ret.identifier) |-> last.ret.identifier[j].value]
         \o (IF "uuid" \in DOMAIN Document(last.ret).header
             THEN <<Document(last.ret).header.uuid>> ELSE <<>>)
         \o (IF "source_data_point_id" \in DOMAIN Document(last.ret).header
             THEN <<Document(last.ret).header.source_data_point_id>> ELSE <<>>)
    ELSE <<>>

\* C24: the counter never decreases and has grown by exactly one for every
\* placeholder generated; every placeholder differs from every one generated
\* before it, and the placeholders a patient or an observation is returned
\* with (identifier, identifier values, header uuid and
\* source_data_point_id) are the last ones generated, each a different one.
C24_UuidCounter ==
    /\ [](/\ Len(uuids) = uuid_n
          /\ \A i, j \in 1..Len(uuids) : i # j => uuids[i] # uuids[j]
          /\ Len(PlacedUuids) <= Len(uuids)
          /\ PlacedUuids = SubSeq(uuids, Len(uuids) - Len(PlacedUuids) + 1, Len(uuids)))
    /\ [][/\ uuid_n' >= uuid_n
          /\ uuid_n' - uuid_n = Len(uuids') - Len(uuids)
          /\ SubSeq(uuids', 1, Len(uuids)) = uuids
          /\ \A k \in (Len(uuids) + 1)..Len(uuids') : uuids'[k] \notin Range(uuids)]_vars

\* C24 witness: an observation is returned with three placeholders, its
\* identifier value, its header uuid and its source_data_point_id
C24_Witness ==
    /\ ObservationReturned
    /\ Len(PlacedUuids) = 3
    /\ uuid_n = 3

\* C24 witness of a later call: an observation is returned with two
\* placeholders after an earlier call generated one
C24_WitnessLaterCall ==
    /\ ObservationReturned
    /\ Len(PlacedUuids) = 2
    /\ uuid_n = 3

(***************************************************************************)
(* Claims about get_patient_by_external_id.                                *)
(***************************************************************************)
LookupEnded ==
    /\ last.op = "get_patient_by_external_id"
    /\ last.status \in {"returned", "KeyError", "RequestError"}

\* the patients of the server's list that have the external id asked for
Matches(call) ==
    {k \in 1..Len(call.arg.results) :
        call.arg.results[k].identifier = call.arg.external_id}

\* C28: whenever get_patient_by_external_id ends, with a patient, with the
\* KeyError or with the error of the request, self._anonymize is what it was
\* before the call; the scan compares the identifiers as the server gave
\* them, so the patient returned is the first of the list that has the
\* external id, and the KeyError means that none has it; the patient is
\* returned as anonymize_patient returns it when the flag was set before the
\* call, and as the server gave it when it was not.
C28_FlagRestored ==
    LookupEnded =>
        /\ anonymize = last.arg.anonymize
        /\ last.status = "RequestError" <=> last.arg.fails
        /\ last.status = "KeyError" <=> (~last.arg.fails /\ Matches(last) = {})
        /\ last.status = "returned" =>
              LET k == CHOOSE i \in Matches(last) : \A j \in Matches(last) : i <= j
                  patient == last.arg.results[k]
              IN  IF last.arg.anonymize
                  THEN /\ Len(last.calls) = 2
                       /\ \E o \in AnonymizePatient(CurrentEnv, patient) :
                             /\ o.status = "returned"
                             /\ SameBut(o.ret, last.ret, {"identifier"})
                       /\ last.ret.identifier = uuids[Len(uuids)]
                  ELSE /\ last.calls = <<>>
                       /\ last.ret = patient

\* C28 witness: with the flag set, the second patient of the list was found
\* and returned anonymized
C28_Witness ==
    /\ LookupEnded
    /\ last.status = "returned"
    /\ last.arg.anonymize
    /\ Matches(last) = {2}
    /\ last.ret # last.arg.results[2]

\* C28 witness of another exit: the KeyError after a scan of two patients,
\* with the flag set
C28_WitnessKeyError ==
    /\ LookupEnded
    /\ last.status = "KeyError"
    /\ last.arg.anonymize
    /\ Len(last.arg.results) = 2

(***************************************************************************)
(* Claims about _random_id called by two threads.                          *)
(***************************************************************************)
\* no thread is inside _random_id
Quiescent == \A t \in DOMAIN threads : ~Inside(t)

\* thread t has returned from a call
Returned(t) == threads[t].pc = "idle" /\ threads[t].ret # 0

\* two keys hold the same synthetic id
SharedId ==
    \E k1, k2 \in DOMAIN jhe_id_cache :
        k1 # k2 /\ jhe_id_cache[k1] = jhe_id_cache[k2]

\* a key was given two synthetic ids: two calls returned different ids for
\* it, or a call returned an id the cache does not hold for it
TwoIds ==
    \/ \E t, u \in DOMAIN threads :
          /\ Returned(t) /\ Returned(u)
          /\ threads[t].id_key = threads[u].id_key
          /\ threads[t].ret # threads[u].ret
    \/ \E t \in DOMAIN threads :
          Returned(t) /\ jhe_id_cache[threads[t].id_key] # threads[t].ret

Broken ==
    \/ SharedId
    \/ TwoIds
    \/ ~Inverses(jhe_id_cache, reverse_id_cache)

\* C25: called by two threads that are switched between statements,
\* _random_id can leave the caches with two keys holding one synthetic id,
\* with a key given two synthetic ids, or with a forward and a reverse map
\* that disagree (the witnesses); this takes two calls that overlap: while
\* no call has begun before another ended, none of the three is the case
\* once the calls have returned.
C25_BrokenOnlyByOverlap ==
    (Quiescent /\ Broken) => overlapped

\* C25 witness: both threads have returned, a key has been given two ids and
\* the reverse map holds an id the forward map does not
C25_Witness ==
    /\ Quiescent
    /\ TwoIds
    /\ ~Inverses(jhe_id_cache, reverse_id_cache)
    /\ ~SharedId

\* C25 witness of the third case: both threads have returned and two keys
\* hold the same id
C25_WitnessSharedId ==
    /\ Quiescent
    /\ SharedId

(***************************************************************************)
(* Claims about the retry loop of _random_id.                              *)
(***************************************************************************)
\* the thread is in the retry loop, lines 46-48
InLoop(t) == threads[t].pc \in {"draw", "check", "redraw"}

\* every id _random_id can draw with start is in the reverse cache
Saturated(start) == RangeOf(start) \subseteq DOMAIN reverse_id_cache

\* C26: a call for a key that is not cached leaves the retry loop only with
\* an id the reverse cache does not hold; when some id of
\* start..start+10000 is not assigned the call returns in the end, the draws
\* being fair; when every id of the range is assigned the call stays in the
\* loop for ever and the caches stay as they are.
C26_RetryLoop ==
    /\ [](threads["a"].pc = "store_fwd" =>
             threads["a"].new_id \notin DOMAIN reverse_id_cache)
    /\ (InLoop("a") /\ ~Saturated(threads["a"].start)) ~> Returned("a")
    /\ [][(InLoop("a") /\ Saturated(threads["a"].start)) =>
             /\ InLoop("a")'
             /\ UNCHANGED <<jhe_id_cache, reverse_id_cache>>]_vars
    /\ []((InLoop("a") /\ Saturated(threads["a"].start)) =>
             [](InLoop("a") /\ Saturated(threads["a"].start)))

\* C26 witness of the last free id: a call has returned it, the other ids of
\* the range being held by other keys
C26_Witness ==
    /\ Returned("a")
    /\ Saturated(threads["a"].start)
    /\ Cardinality(DOMAIN jhe_id_cache) = Cardinality(RangeOf(threads["a"].start))
    /\ Inverses(jhe_id_cache, reverse_id_cache)

\* C26 witness of the saturated range: earlier calls have returned every id
\* of the range, each to one key, and a call for another key is in the loop
\* and has drawn an assigned id
C26_WitnessSaturated ==
    /\ threads["a"].pc = "redraw"
    /\ Saturated(threads["a"].start)
    /\ threads["a"].id_key \notin DOMAIN jhe_id_cache
    /\ Cardinality(DOMAIN jhe_id_cache) = Cardinality(RangeOf(threads["a"].start))
    /\ Inverses(jhe_id_cache, reverse_id_cache)

====
